---- MODULE Spec2Model ----
(***************************************************************************)
(* Model of src/main.py: the per-message handler handle_message of the     *)
(* railway log bot, together with the three external collaborators it      *)
(* talks to (the language model, the spreadsheet, the messaging            *)
(* transport), whose answers are nondeterministic.                         *)
(*                                                                         *)
(* Text is a sequence of tokens.  A token is a run of characters that the  *)
(* handler never splits: the marker opener "[SOURCE: ", a marker name, the *)
(* closing bracket, a word.  Substring tests and str.replace are computed  *)
(* on token sequences exactly as Python computes them on characters.       *)
(***************************************************************************)
EXTENDS Integers, Sequences, FiniteSets, TLC

VARIABLES phase, clock, handled, update, current_time, prompt_input,
          response, final_text, rows, sent, printed, appended, logged,
          receivedAt, modelDoneAt, appendAt, failedSends

vars == <<phase, clock, handled, update, current_time, prompt_input,
          response, final_text, rows, sent, printed, appended, logged,
          receivedAt, modelDoneAt, appendAt, failedSends>>

(* ------------------------------ bounds --------------------------------- *)

\* messages handled in one behaviour of the multi-message specification
MaxMsgs == 2
\* last value of the wall clock, in ticks
MaxClock == 3
\* clock ticks per second: datetime.now() is finer than the %S it is cut to
TicksPerSecond == 2
\* pieces a free-text model answer is put together from
MaxPieces == 4

(* ------------------------- text as token sequences --------------------- *)

OPEN == "[SOURCE: "
CLOSE == "]"

\* "sub in s" of Python on sequences
RECURSIVE Contains(_, _)
Contains(s, sub) ==
    IF Len(sub) > Len(s) THEN FALSE
    ELSE IF SubSeq(s, 1, Len(sub)) = sub THEN TRUE
    ELSE Contains(Tail(s), sub)

\* s.replace(old, "") of Python: leftmost non-overlapping occurrences, one pass
RECURSIVE Replace(_, _)
Replace(s, old) ==
    IF Len(old) > Len(s) THEN s
    ELSE IF SubSeq(s, 1, Len(old)) = old
         THEN Replace(SubSeq(s, Len(old) + 1, Len(s)), old)
         ELSE <<Head(s)>> \o Replace(Tail(s), old)

\* number of (possibly overlapping) occurrences of sub in s
RECURSIVE Count(_, _)
Count(s, sub) ==
    IF Len(sub) > Len(s) THEN 0
    ELSE (IF SubSeq(s, 1, Len(sub)) = sub THEN 1 ELSE 0) + Count(Tail(s), sub)

\* "\n".join(lines)
RECURSIVE Join(_)
Join(lines) ==
    IF lines = <<>> THEN <<>>
    ELSE IF Len(lines) = 1 THEN Head(lines)
    ELSE Head(lines) \o <<"\n">> \o Join(Tail(lines))

RECURSIVE Flatten(_)
Flatten(ps) == IF ps = <<>> THEN <<>> ELSE Head(ps) \o Flatten(Tail(ps))

SeqsUpTo(S, n) == UNION {[1..k -> S] : k \in 0..n}

(* ------------------------------ constants ------------------------------ *)

NOTEBOOK_LIBRARY ==
    [n \in {"DOUBT SOLVER", "OEM", "ASSET_DATA", "RULES"} |->
        CASE n = "DOUBT SOLVER" -> "https://notebooklm.google.com/notebook/7dddc77d-86e6-4e76-9dce-bf30b93688bf"
          [] n = "OEM"          -> "https://notebooklm.google.com/notebook/822125b0-47f0-4703-8a1c-ec44abf5eb17"
          [] n = "ASSET_DATA"   -> "https://notebooklm.google.com/notebook/e064cf10-8a99-4712-a4e7-ff809415ec8e"
          [] n = "RULES"        -> "https://notebooklm.google.com/notebook/27c3dfab-5300-4ce1-8cd9-fe1fb9bbb259"]

\* the order in which handle_message tests the four markers
CheckOrder == <<"DOUBT SOLVER", "OEM", "ASSET_DATA", "RULES">>

SourceTag(n) == <<OPEN, n, CLOSE>>

LinkLabel(n) ==
    CASE n = "DOUBT SOLVER" -> <<"signal ", "DOUBT SOLVER">>
      [] n = "OEM"          -> <<"antenna ", "OEM">>
      [] n = "ASSET_DATA"   -> <<"chart ", "Asset Data">>
      [] n = "RULES"        -> <<"book ", "General Rules">>

\* f"<icon> [<label>](<url>)"
LinkLine(n) ==
    <<LinkLabel(n)[1], "[", LinkLabel(n)[2], "]", "(", NOTEBOOK_LIBRARY[n], ")">>

TipLine == <<"\n", "Tip: If asked to login, tap 'Open in Chrome'.">>

ToolName == "extract_transaction_data"

ArgKeys == {"category", "item", "quantity", "location", "status", "sentiment"}


\* the values the model gives to the arguments it does supply
ArgValue ==
    [category |-> "Material", item |-> "relays", quantity |-> 5,
     location |-> "Station X", status |-> "Issued", sentiment |-> "Positive"]

\* an argument mapping carrying exactly the keys of S
ArgsOn(S) == [k \in S |-> ArgValue[k]]

NoArgs == ArgsOn({})

(* --------------------------- pure helpers ------------------------------ *)

\* dict.get(key, default)
Get(args, key, default) == IF key \in DOMAIN args THEN args[key] ELSE default

\* str() of what an f-string is handed: a small number, a string, or None
DigitStr == <<"1", "2", "3", "4", "5", "6", "7", "8", "9">>
FmtQty(args) ==
    IF "quantity" \notin DOMAIN args THEN "None"
    ELSE IF args["quantity"] = 0 THEN "0" ELSE DigitStr[args["quantity"]]
FmtItem(args) == IF "item" \in DOMAIN args THEN args["item"] ELSE "None"

\* datetime.now().strftime("%Y-%m-%d %H:%M:%S"): the clock cut to whole seconds
Strftime(t) == t \div TicksPerSecond

\* the reply_to_message of an update: absent, present without text, or with text
NoReply == [exists |-> FALSE, hasText |-> FALSE, text |-> <<>>]
ReplyWithoutText == [exists |-> TRUE, hasText |-> FALSE, text |-> <<>>]
ReplyWithText(t) == [exists |-> TRUE, hasText |-> TRUE, text |-> t]

\* update.message.reply_to_message and update.message.reply_to_message.text
HasReplyText(reply) == reply.exists /\ reply.hasText /\ reply.text # <<>>

PromptHead == "CONTEXT [Original Msg]: '"
PromptMid == "'\nACTION [User Reply]: '"
PromptTail == "'\nINSTRUCTION: User is updating a request. Extract Item from Context, Status from Action."

\* ComposePrompt that forgets the replied-to message
ComposePrompt_noContext(user_text, reply) == user_text

\* lines 139-148
ComposePrompt(user_text, reply) ==
    IF HasReplyText(reply)
    THEN <<PromptHead>> \o reply.text \o <<PromptMid>> \o user_text \o <<PromptTail>>
    ELSE user_text

\* row_data with the location and status columns exchanged
row_data_swapped(user_name, args, user_text, now) ==
    << user_name,
       Get(args, "category", "N/A"),
       Get(args, "item", "Unknown"),
       Get(args, "quantity", 0),
       Get(args, "status", "Info"),
       Get(args, "location", "N/A"),
       Get(args, "sentiment", "Neutral"),
       user_text,
       now >>

\* row_data that reads the clock when the row is built
row_data_stampedAtAppend(user_name, args, user_text, now) ==
    << user_name,
       Get(args, "category", "N/A"),
       Get(args, "item", "Unknown"),
       Get(args, "quantity", 0),
       Get(args, "location", "N/A"),
       Get(args, "status", "Info"),
       Get(args, "sentiment", "Neutral"),
       user_text,
       Strftime(clock) >>

\* lines 162-174
row_data(user_name, args, user_text, now) ==
    << user_name,
       Get(args, "category", "N/A"),
       Get(args, "item", "Unknown"),
       Get(args, "quantity", 0),
       Get(args, "location", "N/A"),
       Get(args, "status", "Info"),
       Get(args, "sentiment", "Neutral"),
       user_text,
       now >>

\* an append that skips a row the sheet already holds
append_row_dedup(sheet, row) ==
    IF \E i \in 1..Len(sheet) : sheet[i] = row THEN sheet ELSE Append(sheet, row)

\* sh.append_row(row) when the store accepts it
append_row(sheet, row) == Append(sheet, row)

\* lines 177-180
Confirmation(args) ==
    << "Update Logged", "\nStatus: ", Get(args, "status", "Info"),
       " | Item: ", FmtItem(args), " | Qty: ", FmtQty(args) >>

\* one "if tag in final_text: links.append(...); final_text = replace(...)" block
\* acc = [text |-> final_text, links |-> links_to_add]
CheckTag(acc, n) ==
    IF Contains(acc.text, SourceTag(n))
    THEN [text |-> Replace(acc.text, SourceTag(n)),
          links |-> Append(acc.links, LinkLine(n))]
    ELSE acc

\* the four blocks in the opposite order
ScanTags_reversed(text) ==
    CheckTag(CheckTag(CheckTag(CheckTag([text |-> text, links |-> <<>>],
        CheckOrder[4]), CheckOrder[3]), CheckOrder[2]), CheckOrder[1])

\* lines 189-203: the four blocks, in the order of the source
ScanTags(text) ==
    CheckTag(CheckTag(CheckTag(CheckTag([text |-> text, links |-> <<>>],
        CheckOrder[1]), CheckOrder[2]), CheckOrder[3]), CheckOrder[4])

\* AppendLinks without the "if links_to_add" test
AppendLinks_always(acc) ==
    acc.text \o <<"\n\n">> \o Join(acc.links) \o TipLine

\* lines 206-208
AppendLinks(acc) ==
    IF acc.links # <<>>
    THEN acc.text \o <<"\n\n">> \o Join(acc.links) \o TipLine
    ELSE acc.text

\* lines 185-208: the text handed to send_message
Annotated(text) == AppendLinks(ScanTags(text))

(* ------------------------------ inputs --------------------------------- *)

Update(text, name, reply) == [text |-> text, first_name |-> name, reply |-> reply]

CallResponse(name, args) == [kind |-> "call", name |-> name, args |-> args, text |-> <<>>]
TextResponse(text) == [kind |-> "text", name |-> "", args |-> NoArgs, text |-> text]
\* a response with no parts at all
EmptyResponse == [kind |-> "empty", name |-> "", args |-> NoArgs, text |-> <<>>]
NoResponse == [kind |-> "none", name |-> "", args |-> NoArgs, text |-> <<>>]

\* the multi-message specification: few inputs, several messages
UpdatesNarrow ==
    { Update(<<"Issued">>, "Asha", r) : r \in {NoReply, ReplyWithText(<<"Need", "relays">>)} }

ResponsesNarrow ==
    { CallResponse(n, ArgsOn(S)) :
        n \in {ToolName, "other_tool"},
        S \in {{}, ArgKeys, {"item", "status"}} }
    \cup { TextResponse(t) :
        t \in { <<"ok">>,
                <<"see">> \o SourceTag("OEM"),
                <<"see">> \o SourceTag("OEM_MANUAL") } }
    \cup {EmptyResponse}

\* the logging specification: one message, every subset of the six arguments
UpdatesWide ==
    { Update(t, n, r) :
        t \in {<<"Issued">>, <<"Issued", "5", "relays">>},
        n \in {"Asha", "Ravi"},
        r \in {NoReply, ReplyWithoutText,
               ReplyWithText(<<"Need", "relays">>), ReplyWithText(<<"Issued">>)} }

ResponsesCalls ==
    { CallResponse(n, ArgsOn(S)) : n \in {ToolName, "other_tool"}, S \in SUBSET ArgKeys }
    \cup {TextResponse(<<"ok">>), EmptyResponse}

\* the annotation specification: one message, every short free text
Pieces ==
    { SourceTag(n) : n \in {"DOUBT SOLVER", "OEM", "ASSET_DATA", "RULES", "OEM_MANUAL"} }
    \cup { <<"w">>, <<OPEN>>, <<"OEM">>, <<CLOSE>> }

ResponsesTexts ==
    { TextResponse(Flatten(ps)) : ps \in SeqsUpTo(Pieces, MaxPieces) } \cup {EmptyResponse}

(* ------------------------------- state --------------------------------- *)

NoUpdate == Update(<<>>, "", NoReply)

Init ==
    /\ phase = "idle"
    /\ clock = 0
    /\ handled = 0
    /\ update = NoUpdate
    /\ current_time = 0
    /\ prompt_input = <<>>
    /\ response = NoResponse
    /\ final_text = <<>>
    /\ rows = <<>>
    /\ sent = <<>>
    /\ printed = 0
    /\ appended = 0
    /\ logged = 0
    /\ receivedAt = 0
    /\ modelDoneAt = 0
    /\ appendAt = 0
    /\ failedSends = 0

\* the wall clock moves on while the handler waits
Tick ==
    /\ clock < MaxClock
    /\ clock' = clock + 1
    /\ UNCHANGED <<phase, handled, update, current_time, prompt_input, response,
                   final_text, rows, sent, printed, appended, logged,
                   receivedAt, modelDoneAt, appendAt, failedSends>>

\* lines 133-151: a text update arrives and the handler runs up to the model call
\* (filters.TEXT gives every update a text; start_chat only builds a local
\* session object).  Updates are handled one after another: the application is
\* built with its default, sequential dispatch (lines 220-223).
Receive(updates, maxMsgs) ==
    /\ phase \in {"idle", "done"}
    /\ handled < maxMsgs
    /\ \E u \in updates :
        /\ update' = u
        /\ prompt_input' = ComposePrompt(u.text, u.reply)
    /\ current_time' = Strftime(clock)
    /\ receivedAt' = clock
    /\ handled' = handled + 1
    /\ phase' = "model"
    /\ response' = NoResponse
    /\ final_text' = <<>>
    /\ sent' = <<>>
    /\ printed' = 0
    /\ appended' = 0
    /\ modelDoneAt' = clock
    /\ appendAt' = clock
    /\ UNCHANGED <<clock, rows, logged, failedSends>>

\* line 154 raises: caught at line 212, printed at line 213
ModelCallRaises ==
    /\ phase = "model"
    /\ printed' = printed + 1
    /\ modelDoneAt' = clock
    /\ phase' = "done"
    /\ UNCHANGED <<clock, handled, update, current_time, prompt_input, response,
                   final_text, rows, sent, appended, logged, receivedAt, appendAt,
                   failedSends>>

\* lines 154-155: the model answers; response.parts[0] raises on an empty answer
ModelCall(responses) ==
    /\ phase = "model"
    /\ \E r \in responses :
        /\ response' = r
        /\ IF r.kind = "empty"
           THEN printed' = printed + 1 /\ phase' = "done"
           ELSE printed' = printed /\ phase' = "dispatch"
    /\ modelDoneAt' = clock
    /\ UNCHANGED <<clock, handled, update, current_time, prompt_input,
                   final_text, rows, sent, appended, logged, receivedAt, appendAt,
                   failedSends>>

\* lines 158-175: a call of the declared tool; the store accepts the row or raises
LogAppend ==
    /\ phase = "dispatch"
    /\ response.kind = "call"
    /\ response.name = ToolName
    /\ \E accepted \in BOOLEAN :
        IF accepted
        THEN /\ rows' = append_row(rows,
                    row_data(update.first_name, response.args, update.text, current_time))
             /\ appended' = appended + 1
             /\ logged' = logged + 1
             /\ appendAt' = clock
             /\ phase' = "confirm"
             /\ UNCHANGED printed
        ELSE /\ printed' = printed + 1
             /\ phase' = "done"
             /\ UNCHANGED <<rows, appended, logged, appendAt>>
    /\ UNCHANGED <<clock, handled, update, current_time, prompt_input, response,
                   final_text, sent, receivedAt, modelDoneAt, failedSends>>

\* lines 158-160: a call under another name falls through both ifs
IgnoreCall ==
    /\ phase = "dispatch"
    /\ response.kind = "call"
    /\ response.name # ToolName
    /\ phase' = "done"
    /\ UNCHANGED <<clock, handled, update, current_time, prompt_input, response,
                   final_text, rows, sent, printed, appended, logged,
                   receivedAt, modelDoneAt, appendAt, failedSends>>

\* context.bot.send_message(text, parse_mode='Markdown'): delivered, or raises
Send(text, phaseBefore) ==
    /\ phase = phaseBefore
    /\ \E ok \in BOOLEAN :
        /\ sent' = Append(sent, [text |-> text, parse_mode |-> "Markdown", ok |-> ok])
        /\ printed' = IF ok THEN printed ELSE printed + 1
        /\ failedSends' = IF ok THEN failedSends ELSE failedSends + 1
    /\ phase' = "done"
    /\ UNCHANGED <<clock, handled, update, current_time, prompt_input, response,
                   final_text, rows, appended, logged, receivedAt, modelDoneAt, appendAt>>

\* a confirmation send that takes the row back when the send raises
SendConfirmation_rollback ==
    /\ phase = "confirm"
    /\ \E ok \in BOOLEAN :
        /\ sent' = Append(sent, [text |-> Confirmation(response.args),
                                 parse_mode |-> "Markdown", ok |-> ok])
        /\ printed' = IF ok THEN printed ELSE printed + 1
        /\ failedSends' = IF ok THEN failedSends ELSE failedSends + 1
        /\ rows' = IF ok THEN rows ELSE SubSeq(rows, 1, Len(rows) - 1)
    /\ phase' = "done"
    /\ UNCHANGED <<clock, handled, update, current_time, prompt_input, response,
                   final_text, appended, logged, receivedAt, modelDoneAt, appendAt>>

\* lines 177-181
SendConfirmation == Send(Confirmation(response.args), "confirm")

\* lines 184-208
Annotate ==
    /\ phase = "dispatch"
    /\ response.kind = "text"
    /\ final_text' = Annotated(response.text)
    /\ phase' = "deliver"
    /\ UNCHANGED <<clock, handled, update, current_time, prompt_input, response,
                   rows, sent, printed, appended, logged, receivedAt, modelDoneAt, appendAt,
                   failedSends>>

\* line 210
Deliver == Send(final_text, "deliver")

Next ==
    \/ Tick
    \/ Receive(UpdatesNarrow, MaxMsgs)
    \/ ModelCallRaises
    \/ ModelCall(ResponsesNarrow)
    \/ LogAppend
    \/ IgnoreCall
    \/ SendConfirmation
    \/ Annotate
    \/ Deliver

Spec == Init /\ [][Next]_vars

NextLog ==
    \/ Tick
    \/ Receive(UpdatesWide, 1)
    \/ ModelCallRaises
    \/ ModelCall(ResponsesCalls)
    \/ LogAppend
    \/ IgnoreCall
    \/ SendConfirmation
    \/ Annotate
    \/ Deliver

SpecLog == Init /\ [][NextLog]_vars

NextAnnotate ==
    \/ Receive(UpdatesNarrow, 1)
    \/ ModelCallRaises
    \/ ModelCall(ResponsesTexts)
    \/ Annotate
    \/ Deliver

SpecAnnotate == Init /\ [][NextAnnotate]_vars

(* ------------------------------- claims -------------------------------- *)

Recognized == {CheckOrder[i] : i \in 1..Len(CheckOrder)}

IsLogCall == response.kind = "call" /\ response.name = ToolName

LastRow == rows[Len(rows)]

\* the six argument columns, left to right, and what stands in for a missing one
ColumnKeys == <<"category", "item", "quantity", "location", "status", "sentiment">>
ColumnDefault ==
    [category |-> "N/A", item |-> "Unknown", quantity |-> 0,
     location |-> "N/A", status |-> "Info", sentiment |-> "Neutral"]

RowAsDocumented(r) ==
    /\ Len(r) = 9
    /\ r[1] = update.first_name
    /\ \A i \in 1..6 :
        r[i + 1] = IF ColumnKeys[i] \in DOMAIN response.args
                   THEN response.args[ColumnKeys[i]]
                   ELSE ColumnDefault[ColumnKeys[i]]
    /\ r[8] = update.text
    /\ r[9] = current_time

\* C1 as stated: whatever the name of the structured call, a handler that ends
\* without a swallowed failure has appended exactly one row of the 9 documented
\* fields.
C1_AnyCallAppendsRow ==
    (phase = "done" /\ response.kind = "call" /\ printed = 0)
        => (appended = 1 /\ Len(rows) = 1 /\ RowAsDocumented(LastRow))

\* C1 amended: a structured call named extract_transaction_data, with any subset
\* of the six arguments, makes the handler hand the store exactly one row of the
\* 9 documented fields, defaults in place of the missing arguments; the row is
\* in the store unless the store raised.  A call under another name appends
\* nothing.
C1_DeclaredCallAppendsRow ==
    /\ (response.kind = "call" /\ response.name # ToolName) => rows = <<>>
    /\ (IsLogCall /\ phase \in {"confirm", "done"}) =>
        \/ appended = 1 /\ Len(rows) = 1 /\ RowAsDocumented(LastRow)
        \/ appended = 0 /\ rows = <<>> /\ phase = "done" /\ printed = 1 /\ sent = <<>>
    /\ (IsLogCall /\ phase = "confirm") => appended = 1

C1_Witness ==
    /\ phase = "done"
    /\ IsLogCall
    /\ DOMAIN response.args = {"item", "quantity"}
    /\ appended = 1
    /\ LastRow[2] = "N/A" /\ LastRow[3] = "relays" /\ LastRow[6] = "Info"

Replied == \E i \in 1..Len(sent) : sent[i].ok

\* C2: every execution of the handler ends with a reply sent to the user or
\* with a failure caught and printed.
C2_ReplyOrPrintedFailure ==
    phase = "done" => (Replied \/ printed >= 1)

HasBracket(text) ==
    \E i \in 1..Len(text) : text[i] \in {"[", "]", "(", ")", OPEN}

\* C3: when the Markdown send of the final text is rejected, the text is sent
\* once more as plain text without '[', ']', '(' and ')', and nothing is sent
\* after that.
C3_PlainTextFallback ==
    (phase = "done" /\ response.kind = "text" /\ sent # <<>> /\ ~sent[1].ok)
        => /\ Len(sent) = 2
           /\ sent[2].parse_mode # "Markdown"
           /\ ~HasBracket(sent[2].text)

\* C4: every recognized marker that occurs in a free-text answer is absent from
\* the delivered text, and its link line occurs there exactly once.
C4_MarkerGoneLinkOnce ==
    (response.kind = "text" /\ sent # <<>> /\ sent[1].ok) =>
        \A n \in Recognized :
            Contains(response.text, SourceTag(n)) =>
                /\ ~Contains(sent[1].text, SourceTag(n))
                /\ Count(sent[1].text, LinkLine(n)) = 1

NoRecognizedTag(text) == \A n \in Recognized : ~Contains(text, SourceTag(n))

\* C5: a free-text answer with none of the four recognized markers is sent as
\* it is: no link block, no tip line, unrecognized markers left in place.
C5_UntaggedTextUnchanged ==
    (response.kind = "text" /\ NoRecognizedTag(response.text)) =>
        /\ phase = "deliver" => final_text = response.text
        /\ sent # <<>> =>
            /\ sent[1].text = response.text
            /\ Count(sent[1].text, TipLine) = 0

C5_Witness ==
    /\ phase = "done"
    /\ response.kind = "text"
    /\ Contains(response.text, SourceTag("OEM_MANUAL"))
    /\ NoRecognizedTag(response.text)
    /\ sent # <<>> /\ sent[1].ok
    /\ Contains(sent[1].text, SourceTag("OEM_MANUAL"))

\* C6: the store has one row for every declared call the store accepted; a row
\* equal to one already stored is appended all the same.
C6_NoDedup == Len(rows) = logged

C6_Witness ==
    /\ Len(rows) = 2
    /\ rows[1] = rows[2]
    /\ handled = 2
    /\ logged = 2

\* C7: without a reply-to text the prompt is the message text itself; with one,
\* the prompt is a non-empty composite holding the replied-to text and the
\* message text.
C7_Prompt ==
    phase # "idle" =>
        IF update.reply.exists /\ update.reply.hasText
        THEN /\ prompt_input # <<>>
             /\ prompt_input # update.text
             /\ Contains(prompt_input, update.reply.text)
             /\ Contains(prompt_input, update.text)
        ELSE prompt_input = update.text

C7_Witness ==
    /\ phase = "model"
    /\ update.reply.hasText
    /\ update.reply.text = <<"Need", "relays">>
    /\ update.text = <<"Issued", "5", "relays">>
    /\ Len(prompt_input) = 8

IsPrefix(a, b) == Len(a) <= Len(b) /\ SubSeq(b, 1, Len(a)) = a

\* C8: the row is in the store before the confirmation is sent; a failed
\* confirmation leaves the store as it is, is printed and ends the handler; no
\* step takes a row back or appends a second row for the same message.
C8_AppendThenConfirm ==
    [][ /\ IsPrefix(rows, rows')
        /\ (handled' = handled) => (appended' <= 1 /\ Len(rows') <= Len(rows) + 1)
        /\ (phase = "confirm") =>
              /\ appended = 1
              /\ LastRow = row_data(update.first_name, response.args, update.text,
                                    current_time)
        /\ (phase = "confirm" /\ sent' # sent) =>
              /\ rows' = rows
              /\ appended' = appended
              /\ phase' = "done"
              /\ printed' = IF sent'[Len(sent')].ok THEN printed ELSE printed + 1
        /\ (phase = "done" /\ phase' # "done") =>
              /\ phase' = "model"
              /\ handled' = handled + 1
              /\ rows' = rows
      ]_vars

C8_Witness ==
    /\ failedSends = 1
    /\ handled = 2
    /\ phase = "done"
    /\ IsLogCall
    /\ sent # <<>> /\ sent[1].ok
    /\ printed = 0
    /\ Len(rows) = 2

LinkPos(t, n) ==
    IF Contains(t, LinkLine(n))
    THEN CHOOSE i \in 1..Len(t) :
            /\ i + Len(LinkLine(n)) - 1 <= Len(t)
            /\ SubSeq(t, i, i + Len(LinkLine(n)) - 1) = LinkLine(n)
            /\ \A j \in 1..(i - 1) :
                SubSeq(t, j, j + Len(LinkLine(n)) - 1) # LinkLine(n)
    ELSE 0

EndsWith(t, b) == Len(b) <= Len(t) /\ SubSeq(t, Len(t) - Len(b) + 1, Len(t)) = b

\* C9: the link lines stand in the order DOUBT SOLVER, OEM, ASSET_DATA, RULES
\* whatever the order of the markers in the answer, as one trailing block
\* followed by the tip line, which occurs once.
C9_LinksInCheckOrder ==
    (response.kind = "text" /\ sent # <<>>) =>
        LET t == sent[1].text
            linked == {i \in 1..4 : Contains(t, LinkLine(CheckOrder[i]))}
            lines == [i \in 1..4 |-> LinkLine(CheckOrder[i])]
            block == Join([k \in 1..Cardinality(linked) |->
                        lines[CHOOSE i \in linked :
                                Cardinality({j \in linked : j < i}) = k - 1]])
        IN /\ \A i \in 1..4 :
                Contains(response.text, SourceTag(CheckOrder[i])) => i \in linked
           /\ \A i, j \in linked :
                i < j => LinkPos(t, CheckOrder[i]) < LinkPos(t, CheckOrder[j])
           /\ linked # {} =>
                /\ EndsWith(t, <<"\n\n">> \o block \o TipLine)
                /\ Count(t, TipLine) = 1
           /\ linked = {} => Count(t, TipLine) = 0

C9_Witness ==
    /\ phase = "done"
    /\ response.kind = "text"
    /\ response.text = SourceTag("RULES") \o SourceTag("ASSET_DATA")
                        \o SourceTag("OEM") \o SourceTag("DOUBT SOLVER")
    /\ sent # <<>> /\ sent[1].ok
    /\ LinkPos(sent[1].text, "DOUBT SOLVER") < LinkPos(sent[1].text, "RULES")

\* C10 as stated: the timestamp of an appended row is the clock at the moment
\* of the append, never earlier than the clock at which the model call returned.
C10_StampedAtAppend ==
    appended = 1 =>
        /\ LastRow[9] = Strftime(appendAt)
        /\ LastRow[9] >= Strftime(modelDoneAt)

\* C10 amended: the timestamp of an appended row is the clock at the moment the
\* handler starts, before the model call, cut to whole seconds; it is never
\* later than the clock at which the model call returned or the row was appended.
C10_StampedAtEntry ==
    appended = 1 =>
        /\ LastRow[9] = Strftime(receivedAt)
        /\ LastRow[9] <= Strftime(modelDoneAt)
        /\ LastRow[9] <= Strftime(appendAt)

C10_Witness ==
    /\ appended = 1
    /\ phase = "confirm"
    /\ LastRow[9] < Strftime(modelDoneAt)
    /\ LastRow[9] < Strftime(appendAt)

====
